---- MODULE Spec2Model ----
(***************************************************************************)
(* Model of keepchen/corgi, redislock.go: a distributed lock over redis.   *)
(*                                                                         *)
(* Every process has its own redisDriver (lockDriver), its own sync.Once   *)
(* (doOnce) and its own registry of renewal cancel channels                *)
(* (states.listeners).  All processes talk to one redis store.             *)
(*                                                                         *)
(* Time is counted in renewal intervals (renewalCheckInterval = 1s = one   *)
(* tick): Tick lets one second pass, which ages every record of the store  *)
(* and makes the ticker of every running renewal goroutine fire; a         *)
(* goroutine handles its tick (RenewalTick) before the next second passes. *)
(***************************************************************************)
EXTENDS Integers, FiniteSets, TLC

\* ------------------------------------------------------------------ bounds
Procs == {"p1", "p2"}
Keys == {"k1"}
\* successful conditional creates per key that the model follows
MaxGen == 2
\* longest deadline (in ticks) of a context a caller passes in
MaxDeadline == 2
\* the age of an acquisition is counted up to lockTTL + AgeSlack ticks
AgeSlack == 2

\* --------------------------------------------------------------- constants
lockTTL == 10
redisExecuteTimeout == 3
renewalCheckInterval == 1

Nil == "nil"
Gens == 1..MaxGen

VARIABLES
    lockDriver,  \* per process: the redisDriver's fields client, clusterClient
    doOnce,      \* per process: has doOnce.Do already run its function
    store,       \* redis: per key the record's remaining ttl (0: no record)
                 \* and the number of the conditional create that made it
    created,     \* per key: conditional creates that made a record so far
    listeners,   \* per process: states.listeners, key -> cancelChan (named
                 \* by the create it belongs to; 0: no entry)
    tasks,       \* the running renewal goroutines
    calls,       \* per process: the TryLock call that is past its SetNX
    chans,       \* per cancelChan: values sent, closes, senders stuck
    last,        \* the call that returned last, with what the store did
    holds,       \* per process: keys whose latest TryLock returned true
                 \* with no Unlock of the key called since
    hist         \* per key: history the properties speak about

vars == <<lockDriver, doOnce, store, created, listeners, tasks, calls, chans,
          last, holds, hist>>

\* ---------------------------------------------------------------- contexts
\* A context is its deadline: whether it has one, and the ticks left to it.
Background == [hasDeadline |-> FALSE, left |-> 0]

WithTimeout(d) == [hasDeadline |-> TRUE, left |-> d]

CallerCtxs == {Background} \cup {WithTimeout(d) : d \in 1..MaxDeadline}

\* context.WithTimeout(ctx, redisExecuteTimeout) when ctx has no deadline
CallCtx(ctx) == IF ~ctx.hasDeadline THEN WithTimeout(redisExecuteTimeout) ELSE ctx

\* `defer cancel()`: the derived context is cancelled when the call returns
AfterReturn(ctx, callCtx) == IF ~ctx.hasDeadline THEN WithTimeout(0) ELSE callCtx

CtxDone(ctx) == ctx.hasDeadline /\ ctx.left = 0

AgeCtx(ctx) == IF ctx.hasDeadline /\ ctx.left > 0
               THEN [ctx EXCEPT !.left = @ - 1] ELSE ctx

\* ------------------------------------------------------------------- redis
\* What a store call can meet: it is answered; the request never arrives
\* (error, nothing done); the reply is lost or late (error, command done).
Outcomes == {"ok", "lost_request", "lost_reply"}

Applied(o) == o # "lost_request"

Failed(o) == o # "ok"

NoRecord == [ttl |-> 0, gen |-> 0]

Exists(k) == store[k].ttl > 0

\* SET key value EX ttl, without NX
SetCreates(k) == TRUE

\* SET key value NX EX ttl
SetNXCreates(k) == ~Exists(k)

SetNX(k) == IF SetNXCreates(k)
            THEN [store EXCEPT ![k] = [ttl |-> lockTTL, gen |-> created[k] + 1]]
            ELSE store

\* EXPIRE key ttl
Expire(k) == IF Exists(k) THEN [store EXCEPT ![k].ttl = lockTTL] ELSE store

\* DEL key
Del(k) == [store EXCEPT ![k] = NoRecord]

\* ------------------------------------------------------------ redisDriver
NilDriver == [client |-> Nil, clusterClient |-> Nil]

\* client.Close(): the pointer stays set, every later command on the client
\* returns an error without reaching the store
CloseClient(c) == IF c = Nil THEN Nil ELSE "closed"

Closed(rd) == rd.client = "closed" \/ rd.clusterClient = "closed"

\* the outcomes a store call through rd can meet
Reaches(rd, o) == Closed(rd) => o = "lost_request"

\* as Unavailable, had TryLock and Unlock not looked at the driver
UnavailableNever(rd) == FALSE

\* rd.client == nil && rd.clusterClient == nil
Unavailable(rd) == rd.client = Nil /\ rd.clusterClient = Nil

\* as TryLockResult, had it been `return err == nil`
TryLockResultNoError(ok, err) == ~err

\* TryLock: `if err != nil { return false }` ... `return ok`
TryLockResult(ok, err) == IF err THEN FALSE ELSE ok

\* as TryLockSpawns, without the `if ok` around the goroutine
TryLockSpawnsUnlessError(ok, err) == ~err

\* TryLock: `if ok { ... go func() ...; states.listeners[key] = cancelChan }`
TryLockSpawns(ok, err) == ~err /\ ok

\* as InnerCtx, had the goroutine used the ctx of the call
InnerCtxOfCall(ctx, callCtx) == AfterReturn(ctx, callCtx)

\* the renewal goroutine's context: innerCtx := context.Background()
InnerCtx(ctx, callCtx) == Background

\* as LoopBreaks, had the loop looked at redisErr alone
LoopBreaksOnError(redisOK, redisErr) == redisErr

\* the renewal loop: `if ...; !redisOK || redisErr != nil { break LOOP }`
LoopBreaks(redisOK, redisErr) == ~redisOK \/ redisErr

\* as UnlockResult, with `cnt >= 0`
UnlockResultAnyCount(cnt, err) == cnt >= 0 /\ ~err

\* as UnlockResult, with `cnt > 0 || err == nil`
UnlockResultOrNoError(cnt, err) == cnt > 0 \/ ~err

\* Unlock: `return cnt > 0 && err == nil`
UnlockResult(cnt, err) == cnt > 0 /\ ~err

\* as UnlockSteps, had the two Del blocks not returned
UnlockFallsThrough(rd) == IF Unavailable(rd) THEN {} ELSE {"del", "cleanup"}

\* Unlock: the statements a call runs.  Each `if rd.client != nil` and
\* `if rd.clusterClient != nil` block ends in a return, so the goroutine
\* that cleans the registry runs only when both are nil, which the guard
\* at the top of Unlock has already excluded.

UnlockSteps(rd) ==
    IF Unavailable(rd) THEN {}
    ELSE IF rd.client # Nil THEN {"del"}
    ELSE IF rd.clusterClient # Nil THEN {"del"}
    ELSE {"cleanup"}

\* ------------------------------------------------------------------- state
\* a TryLock call past its SetNX: the key, the record its SetNX made,
\* whether the key had a record before, and the context it has made for the
\* renewal goroutine
IdleCall == [k |-> Nil, gen |-> 0, found |-> FALSE, inner |-> Background]

NoCall(p) == calls[p] = IdleCall

NoChan == [sent |-> 0, closed |-> 0, stuck |-> 0]

\* a returned call: its result, whether it made a store call (called),
\* whether that call failed (err), whether its command met a record of the
\* key (found) and whether it is an Unlock that follows an Unlock of the
\* same key (twice)
NoLast == [op |-> "none", p |-> Nil, k |-> Nil, ret |-> FALSE, called |-> FALSE,
           err |-> FALSE, found |-> FALSE, twice |-> FALSE]

Returned(op, p, k, ret, err, found) ==
    [op |-> op, p |-> p, k |-> k, ret |-> ret, called |-> TRUE,
     err |-> err, found |-> found,
     twice |-> op = "Unlock" /\ last.op = "Unlock" /\ last.k = k]

\* a call that returned false at `if rd.client == nil && rd.clusterClient == nil`
Refused(op, p, k) ==
    [Returned(op, p, k, FALSE, FALSE, FALSE) EXCEPT !.called = FALSE]

NoResults == [p \in Procs |-> "none"]

\* lost: a record of the key has expired or has been deleted by a process
\* that did not hold the key; clean: a SetNX of a TryLock created the key's
\* record and since then no Unlock of the key was called and no store call
\* on it failed; age: the ticks the key's first lease has been clean for; round, res: the TryLock calls since
\* the last Unlock or expiry of the key (round is "sound" if there was no
\* record and no call under way then, "faulty" once a SetNX among them has
\* failed, "spoilt" otherwise; res: each process's first result in a round
\* that is not spoilt); failed: the renewal goroutines of the key that have
\* met a failed refresh; trip: how far the key is through a round trip
\* (1: TryLock returned true, 2: then the holder's Unlock returned true,
\* 3: then the next TryLock returned true; 0: none of these).
InitHist == [lost |-> FALSE, clean |-> FALSE, age |-> 0,
             round |-> "sound", res |-> NoResults, failed |-> {}, trip |-> 0]

Acquired(trip) == IF trip = 2 THEN 3 ELSE 1

Released(trip, byHolder, ret) == IF trip \in {1, 3} /\ byHolder /\ ret THEN 2 ELSE 0

Faulted(h, err) == IF err /\ h.round = "sound" THEN [h EXCEPT !.round = "faulty"] ELSE h

Result(h, p, ret) ==
    IF h.round = "spoilt" \/ h.res[p] # "none" THEN h
    ELSE [h EXCEPT !.res[p] = IF ret THEN "true" ELSE "false"]

NewRound(h, sound) ==
    [h EXCEPT !.round = IF sound THEN "sound" ELSE "spoilt", !.res = NoResults]

Init ==
    /\ lockDriver = [p \in Procs |-> NilDriver]
    /\ doOnce = [p \in Procs |-> FALSE]
    /\ store = [k \in Keys |-> NoRecord]
    /\ created = [k \in Keys |-> 0]
    /\ listeners = [p \in Procs |-> [k \in Keys |-> 0]]
    /\ tasks = {}
    /\ calls = [p \in Procs |-> IdleCall]
    /\ chans = [k \in Keys |-> [g \in Gens |-> NoChan]]
    /\ last = NoLast
    /\ holds = [p \in Procs |-> {}]
    /\ hist = [k \in Keys |-> InitHist]

\* ----------------------------------------------------------- configuration
\* initClient, initClusterClient, initFailOverClient: a failed ping panics
\* before the client is stored; sync.Once counts the call as done all the
\* same.  redis.NewClient and redis.NewFailoverClient both give a
\* *redis.Client, stored in the same field.
initClient(p, pingOK) ==
    lockDriver' = IF pingOK THEN [lockDriver EXCEPT ![p].client = "Client"]
                  ELSE lockDriver

initFailOverClient(p, pingOK) ==
    lockDriver' = IF pingOK THEN [lockDriver EXCEPT ![p].client = "Client"]
                  ELSE lockDriver

initClusterClient(p, pingOK) ==
    lockDriver' = IF pingOK THEN [lockDriver EXCEPT ![p].clusterClient = "ClusterClient"]
                  ELSE lockDriver

\* doOnce.Do(f): f runs in the first call only
Once(p, f) ==
    /\ IF doOnce[p] THEN UNCHANGED lockDriver ELSE f
    /\ doOnce' = [doOnce EXCEPT ![p] = TRUE]
    /\ UNCHANGED <<store, created, listeners, tasks, calls, chans, last, holds, hist>>

SetRedisProviderStandalone(p) ==
    \E pingOK \in BOOLEAN : Once(p, initClient(p, pingOK))

SetRedisProviderCluster(p) ==
    \E pingOK \in BOOLEAN : Once(p, initClusterClient(p, pingOK))

SetRedisProviderFailOver(p) ==
    \E pingOK \in BOOLEAN : Once(p, initFailOverClient(p, pingOK))

\* ----------------------------------------------------------------- TryLock
\* What a returning TryLock(k) of p leaves behind.
TryLockReturns(p, k, ret, err, found) ==
    /\ last' = Returned("TryLock", p, k, ret, err, found)
    /\ holds' = [holds EXCEPT ![p] = IF ret THEN @ \cup {k} ELSE @ \ {k}]

\* A TryLock call up to the answer of its SetNX.  A call that is refused
\* returns here; one whose SetNX created the record goes on in
\* TryLockAcquired.  A process has one TryLock call under way at a time.
TryLock(p, k) ==
    /\ NoCall(p)
    /\ \E ctx \in CallerCtxs, o \in Outcomes :
        LET rd == lockDriver[p]
            callCtx == CallCtx(ctx)
            found == Exists(k)
            makes == Applied(o) /\ SetNXCreates(k)
            ok == makes /\ ~Failed(o)
            err == Failed(o)
            ret == TryLockResult(ok, err)
        IN  IF Unavailable(rd)
            THEN /\ o = "ok"
                 /\ last' = Refused("TryLock", p, k)
                 /\ holds' = [holds EXCEPT ![p] = @ \ {k}]
                 /\ UNCHANGED <<store, created, calls, hist>>
            ELSE /\ Reaches(rd, o)
                 /\ makes => created[k] < MaxGen
                 /\ store' = IF Applied(o) THEN SetNX(k) ELSE store
                 /\ created' = IF makes THEN [created EXCEPT ![k] = @ + 1]
                               ELSE created
                 /\ IF TryLockSpawns(ok, err)
                    THEN /\ calls' = [calls EXCEPT ![p] =
                                [k |-> k, gen |-> store'[k].gen, found |-> found,
                                 inner |-> InnerCtx(ctx, callCtx)]]
                         /\ hist' = [hist EXCEPT ![k] =
                                Faulted([@ EXCEPT !.clean = TRUE, !.age = 0], err)]
                         /\ UNCHANGED <<last, holds>>
                    ELSE /\ TryLockReturns(p, k, ret, err, found)
                         /\ hist' = [hist EXCEPT ![k] =
                                Result(Faulted([@ EXCEPT !.clean = @ /\ ~err,
                                                         !.trip = 0], err),
                                       p, ret)]
                         /\ UNCHANGED calls
    /\ UNCHANGED <<lockDriver, doOnce, listeners, tasks, chans>>

\* The rest of a TryLock call whose SetNX created the record: it starts the
\* renewal goroutine, stores its cancelChan in states.listeners and
\* returns true.
TryLockAcquired(p) ==
    /\ ~NoCall(p)
    /\ LET c == calls[p]
       IN  /\ tasks' = tasks \cup {[p |-> p, k |-> c.k, gen |-> c.gen,
                                    due |-> FALSE, ctx |-> c.inner]}
           /\ listeners' = [listeners EXCEPT ![p][c.k] = c.gen]
           /\ TryLockReturns(p, c.k, TRUE, FALSE, c.found)
           /\ hist' = [hist EXCEPT ![c.k] =
                  Result([@ EXCEPT !.trip = Acquired(@)], p, TRUE)]
    /\ calls' = [calls EXCEPT ![p] = IdleCall]
    /\ UNCHANGED <<lockDriver, doOnce, store, created, chans>>

\* ------------------------------------------------------------------ Unlock
\* The goroutine at the end of Unlock: it takes the key's cancelChan out of
\* states.listeners, sends on it and closes it.  The channel is unbuffered:
\* the send is taken by the key's renewal goroutine if that is still in its
\* loop, and otherwise never completes.
CleanupEntry(p, k) == listeners[p][k]

CleanupTaken(p, k) ==
    {t \in tasks : t.p = p /\ t.k = k /\ t.gen = CleanupEntry(p, k)}

Cleanup(p, k) ==
    LET g == CleanupEntry(p, k)
    IN  IF g = 0
        THEN UNCHANGED <<listeners, tasks, chans>>
        ELSE /\ listeners' = [listeners EXCEPT ![p][k] = 0]
             /\ tasks' = tasks \ CleanupTaken(p, k)
             /\ chans' = IF CleanupTaken(p, k) # {}
                         THEN [chans EXCEPT ![k][g].sent = @ + 1,
                                            ![k][g].closed = @ + 1]
                         ELSE [chans EXCEPT ![k][g].stuck = @ + 1]

Unlock(p, k) ==
    /\ \E o \in Outcomes :
        LET steps == UnlockSteps(lockDriver[p])
            found == Exists(k)
            cnt == IF Applied(o) /\ ~Failed(o) /\ found THEN 1 ELSE 0
            err == Failed(o)
        IN  /\ IF "del" \in steps
               THEN /\ Reaches(lockDriver[p], o)
                    /\ store' = IF Applied(o) THEN Del(k) ELSE store
                    /\ last' = Returned("Unlock", p, k, UnlockResult(cnt, err), err, found)
                    /\ hist' = [hist EXCEPT ![k] =
                           NewRound([@ EXCEPT !.lost = @ \/ (Applied(o) /\ found
                                                              /\ k \notin holds[p]),
                                               !.clean = FALSE,
                                               !.age = 0,
                                               !.trip = Released(@, k \in holds[p],
                                                            UnlockResult(cnt, err))],
                                    /\ ~Applied(o) => ~found
                                    /\ \A q \in Procs : calls[q].k # k)]
               ELSE /\ o = "ok"
                    /\ last' = Refused("Unlock", p, k)
                    /\ hist' = [hist EXCEPT ![k].clean = FALSE, ![k].age = 0,
                                            ![k].trip = 0]
                    /\ UNCHANGED store
            /\ IF "cleanup" \in steps
               THEN Cleanup(p, k)
               ELSE UNCHANGED <<listeners, tasks, chans>>
    /\ holds' = [holds EXCEPT ![p] = @ \ {k}]
    /\ UNCHANGED <<lockDriver, doOnce, created, calls>>

\* ------------------------------------------------------ renewal goroutine
\* `case <-ticker.C:` of a goroutine whose ticker has fired: one Expire
\* under innerCtx, and the loop goes on or breaks by its answer.
RenewalTick(t) ==
    /\ t \in tasks
    /\ t.due
    /\ \E o \in Outcomes :
        LET done == CtxDone(t.ctx)
            applied == ~done /\ Applied(o)
            redisErr == done \/ Failed(o)
            redisOK == applied /\ ~redisErr /\ Exists(t.k)
            breaks == LoopBreaks(redisOK, redisErr)
        IN  /\ done => o = "ok"
            /\ ~done => Reaches(lockDriver[t.p], o)
            /\ store' = IF applied THEN Expire(t.k) ELSE store
            /\ tasks' = IF breaks THEN tasks \ {t}
                        ELSE (tasks \ {t}) \cup {[t EXCEPT !.due = FALSE]}
            /\ hist' = [hist EXCEPT ![t.k] =
                   [@ EXCEPT !.clean = @ /\ ~Failed(o),
                             !.failed = IF ~redisOK \/ redisErr
                                        THEN @ \cup {t.gen} ELSE @]]
    /\ UNCHANGED <<lockDriver, doOnce, created, listeners, calls, chans, last, holds>>

\* ------------------------------------------------------------------- time
Older(rec) == IF rec.ttl > renewalCheckInterval
              THEN [rec EXCEPT !.ttl = @ - renewalCheckInterval] ELSE NoRecord

Expires(k) == store[k].ttl \in 1..renewalCheckInterval

Aging(k) == hist[k].clean /\ created[k] = 1 /\ hist[k].age < lockTTL + AgeSlack

\* One renewal interval passes: every record is a tick nearer its expiry
\* and every ticker fires.  The goroutines have handled the tick before,
\* and no call is between its SetNX and its return.
Tick ==
    /\ \A t \in tasks : ~t.due
    /\ \A p \in Procs : NoCall(p)
    /\ store' = [k \in Keys |-> Older(store[k])]
    /\ tasks' = {[t EXCEPT !.due = TRUE, !.ctx = AgeCtx(@)] : t \in tasks}
    /\ hist' = [k \in Keys |->
           LET h == [hist[k] EXCEPT !.age = IF Aging(k) THEN @ + 1 ELSE @]
           IN  IF Expires(k) THEN NewRound([h EXCEPT !.lost = TRUE, !.trip = 0], TRUE)
               ELSE h]
    /\ UNCHANGED <<lockDriver, doOnce, created, listeners, calls, chans, last, holds>>

\* ------------------------------------------------------------------- spec
\* Asleep: closes the client that is set.
Asleep(p) ==
    /\ lockDriver' = [lockDriver EXCEPT
                         ![p].client = CloseClient(@),
                         ![p].clusterClient = CloseClient(@)]
    /\ UNCHANGED <<doOnce, store, created, listeners, tasks, calls, chans,
                   last, holds, hist>>

Next ==
    \/ \E p \in Procs : SetRedisProviderStandalone(p)
    \/ \E p \in Procs : SetRedisProviderCluster(p)
    \/ \E p \in Procs : SetRedisProviderFailOver(p)
    \/ \E p \in Procs, k \in Keys : TryLock(p, k)
    \/ \E p \in Procs : TryLockAcquired(p)
    \/ \E p \in Procs, k \in Keys : Unlock(p, k)
    \/ \E t \in tasks : RenewalTick(t)
    \/ Tick

Spec == Init /\ [][Next]_vars

\* The program with its teardown call.
NextAsleep ==
    \/ Next
    \/ \E p \in Procs : Asleep(p)

SpecAsleep == Init /\ [][NextAsleep]_vars

TypeOK ==
    /\ \A k \in Keys : store[k].ttl \in 0..lockTTL
    /\ \A p \in Procs : holds[p] \subseteq Keys

\* ================================================================= claims
Holders(k) == {p \in Procs : k \in holds[p]}

TasksOf(p, k) == {t \in tasks : t.p = p /\ t.k = k}

MidCall(k) == \E p \in Procs : calls[p].k = k

\* C1 as stated: in every reachable state at most one process holds a key
\* (its latest TryLock of the key returned true and it has not called Unlock
\* of the key since), whoever calls Unlock and whether or not leases expire.
C1_OneHolderAlways == \A k \in Keys : Cardinality(Holders(k)) <= 1

\* C1, amended: at most one process holds a key for as long as no record of
\* the key has expired and none has been deleted by a process that did not
\* hold the key.
C1_OneHolder == \A k \in Keys : ~hist[k].lost => Cardinality(Holders(k)) <= 1

\* a process holds the key, another has just been refused it
C1_Witness ==
    /\ last.op = "TryLock" /\ ~last.ret /\ last.found /\ ~last.err
    /\ ~hist[last.k].lost
    /\ Holders(last.k) # {}
    /\ last.p \notin Holders(last.k)

Callers(k) == {p \in Procs : hist[k].res[p] # "none"}

Winners(k) == {p \in Procs : hist[k].res[p] = "true"}

\* at least two processes have called TryLock(k) since the key was last
\* without a record, and all these calls have returned
RoundOver(k) == Cardinality(Callers(k)) >= 2 /\ ~MidCall(k)

\* C2 as stated: when processes call TryLock(K) concurrently for a key with
\* no record, before any expiry or Unlock, exactly one call returns true.
C2_ExactlyOneAlways ==
    \A k \in Keys :
        hist[k].round # "spoilt" /\ RoundOver(k) => Cardinality(Winners(k)) = 1

\* C2, amended: of such calls at most one returns true, and exactly one does
\* when none of their SetNX calls fails.
C2_ExactlyOne ==
    \A k \in Keys :
        /\ hist[k].round # "spoilt" => Cardinality(Winners(k)) <= 1
        /\ hist[k].round = "sound" /\ RoundOver(k) => Cardinality(Winners(k)) = 1

\* two processes have called, one got true and the other false
C2_Witness ==
    \E k \in Keys :
        /\ hist[k].round = "sound" /\ RoundOver(k)
        /\ Cardinality(Winners(k)) = 1
        /\ Callers(k) = Procs

\* C3: after TryLock(K) = true, the holder's Unlock(K) = true and a further
\* TryLock(K) = true, the key is held as after a first acquisition: while
\* the new lease is undisturbed its record exists, and its holder runs one
\* renewal goroutine for the key and has a registry entry for it.
C3_RoundTrip ==
    \A k \in Keys : \A p \in Holders(k) :
        hist[k].trip = 3 /\ hist[k].clean =>
            /\ Exists(k)
            /\ listeners[p][k] # 0
            /\ Cardinality(TasksOf(p, k)) = 1

\* C4: once a TryLock has created the key's record, and as long as no store
\* call on the key fails and no Unlock of the key is called, the record
\* exists, and once the TryLock has returned the goroutine started for this
\* record is running, however long ago the call and its context ended.
C4_RenewalKeepsLease ==
    \A k \in Keys :
        hist[k].clean =>
            /\ Exists(k)
            /\ ~MidCall(k) => \E t \in tasks : t.k = k /\ t.gen = store[k].gen

\* the record is there more than lockTTL after the acquisition
C4_Witness ==
    \E k \in Keys :
        /\ hist[k].clean /\ hist[k].age > lockTTL
        /\ Exists(k) /\ Holders(k) # {}

\* C5: when an Unlock(K) of a process with a store configured has returned,
\* the process's registry has no entry for K and no renewal goroutine of the
\* process for K is running.
C5_ReleaseCancels ==
    last.op = "Unlock" /\ ~Unavailable(lockDriver[last.p]) =>
        /\ listeners[last.p][last.k] = 0
        /\ TasksOf(last.p, last.k) = {}

\* C6: a TryLock(K) whose SetNX met a record of K has returned false, and no
\* such call goes on to start a renewal goroutine and to write the registry
\* (the calls that do are those in `calls`).
C6_DoubleAcquireRejected ==
    /\ last.op = "TryLock" /\ last.found => ~last.ret
    /\ \A p \in Procs : ~NoCall(p) => ~calls[p].found

\* a process holds the key under a live lease; a TryLock of the key, by
\* another process or by the holder, has just been refused
C6_Witness ==
    /\ last.op = "TryLock" /\ ~last.ret /\ last.found /\ ~last.err
    /\ Exists(last.k) /\ hist[last.k].clean
    /\ \E q \in Procs : TasksOf(q, last.k) # {} /\ listeners[q][last.k] = store[last.k].gen

\* the goroutine started for the record the key has now has left its loop
\* on a failed refresh
OwnerStopped(k) == store[k].gen \in hist[k].failed

Refreshed(k) == store'[k].gen = store[k].gen /\ store'[k].ttl > store[k].ttl

\* C7: once the goroutine renewing the key's record has stopped, the
\* record's expiry is not pushed back any more, so that the record is gone
\* within lockTTL.  (Stated for keys whose records were only ever deleted
\* by their holders and never expired.)
C7_NoRefreshOnceStopped ==
    [][\A k \in Keys :
          Exists(k) /\ OwnerStopped(k) /\ ~hist[k].lost => ~Refreshed(k)]_vars

\* a refresh of the key's record fails in this step of goroutine t
FailsRefresh(t) == t \in tasks /\ t.due /\ RenewalTick(t) /\ t.gen \in hist'[t.k].failed

\* C8: a renewal goroutine whose refresh has failed (an error, or false) is
\* not running any more, so that it makes no further store call; a record's
\* expiry is pushed back by nothing but a goroutine that has not failed, and
\* every tick brings a record that is not refreshed one interval nearer its
\* end.
C8_SelfExpiry ==
    /\ [](\A t \in tasks : t.gen \notin hist[t.k].failed)
    /\ [][\A t \in tasks : FailsRefresh(t) => \A u \in tasks' : u.gen # t.gen \/ u.k # t.k]_vars
    /\ [][\A k \in Keys :
            /\ Refreshed(k) => \E t \in tasks :
                                  t.k = k /\ t.due /\ t.gen \notin hist[k].failed
            /\ Tick /\ Exists(k) =>
                  store'[k].ttl = store[k].ttl - renewalCheckInterval]_vars

\* a goroutine left its loop on a failed refresh, no other was running, and
\* the record, still believed held, has expired
C8_Witness ==
    \E k \in Keys :
        /\ hist[k].failed # {} /\ tasks = {}
        /\ hist[k].lost /\ ~Exists(k) /\ Holders(k) # {}
        /\ hist[k].trip = 0 /\ created[k] = 1

\* C9: an Unlock(K) called while K has no record returns false and leaves
\* the store, every registry entry and the running renewal goroutines as
\* they are.
C9_IdempotentRelease ==
    [][\A p \in Procs, k \in Keys :
          ~Exists(k) /\ Unlock(p, k) =>
              /\ last'.op = "Unlock" /\ last'.p = p /\ last'.k = k /\ ~last'.ret
              /\ UNCHANGED <<store, listeners, tasks, chans>>]_vars

\* an Unlock of a key without a record has returned false, in a process
\* that has a registry entry and a running goroutine for the key
C9_Witness ==
    /\ last.op = "Unlock" /\ ~last.found /\ ~last.ret
    /\ listeners[last.p][last.k] # 0
    /\ TasksOf(last.p, last.k) # {}

\* C10: every Unlock returns (it waits for nothing but its store call), on
\* no cancelChan more than one value is sent, none is closed more than once,
\* and no goroutine is stuck sending on a channel nobody receives from.
C10_CancellationSafe ==
    \A k \in Keys, g \in Gens :
        /\ chans[k][g].sent <= 1
        /\ chans[k][g].closed <= 1
        /\ chans[k][g].stuck = 0

\* a second Unlock of the key in a row has returned, in a process whose
\* registry entry for the key belongs to a goroutine that has left its loop
C10_Witness ==
    /\ last.op = "Unlock" /\ last.twice
    /\ listeners[last.p][last.k] \in hist[last.k].failed

\* C11: Unlock returns true exactly when its Del removed a record that was
\* there and reported no error; it returns false when the record was absent,
\* when the store call failed and when no store is configured.
C11_UnlockResult ==
    last.op = "Unlock" =>
        (last.ret <=> last.found /\ ~last.err)

C11_Witness ==
    /\ last.op = "Unlock" /\ last.ret /\ last.found /\ ~last.err
    /\ ~Exists(last.k) /\ hist[last.k].trip = 2

\* C12: TryLock returns true exactly when its SetNX reported that it created
\* the record and reported no error.  The renewal goroutine is started and
\* states.listeners[key] written exactly when it returns true: a call that
\* met a record or an error goes no further than its SetNX, and a call that
\* returned true has left the entry of its own record in the registry and,
\* until a refresh of that record fails, the goroutine that renews it.
C12_TryLockResult ==
    /\ last.op = "TryLock" =>
            (last.ret <=> last.called /\ ~last.found /\ ~last.err)
    /\ \A p \in Procs : ~NoCall(p) => ~calls[p].found
    /\ last.op = "TryLock" /\ last.ret =>
            LET g == listeners[last.p][last.k]
            IN  /\ g # 0
                /\ g \in hist[last.k].failed
                   \/ \E t \in TasksOf(last.p, last.k) : t.gen = g
    /\ \A t \in tasks : listeners[t.p][t.k] >= t.gen

C12_Witness ==
    /\ last.op = "TryLock" /\ last.ret /\ created[last.k] = 2
    /\ \E t \in TasksOf(last.p, last.k) : t.gen = 2
    /\ \E q \in Procs \ {last.p} : listeners[q][last.k] = 1

\* C13: while a process has no store configured, every TryLock and Unlock
\* it makes returns false, makes no store call, starts no goroutine and
\* leaves states.listeners as it was.
C13_FailClosed ==
    [][\A p \in Procs :
          lockDriver[p] = NilDriver =>
              /\ calls'[p] = IdleCall
              /\ last' # last /\ last'.p = p =>
                     /\ ~last'.ret /\ ~last'.called
                     /\ UNCHANGED <<store, created, tasks, listeners, chans>>]_vars

C13_Witness ==
    /\ last.op = "TryLock" /\ ~last.ret /\ ~last.called
    /\ lockDriver[last.p] = NilDriver /\ doOnce[last.p]
    /\ ~Exists(last.k) /\ created[last.k] = 1

\* C14: configuration is one-shot.  At most one of client and clusterClient
\* is set, and only a successful initialization uses up the one shot: a
\* first SetRedisProvider* call whose ping fails does not count, so a
\* process whose doOnce is done has a store configured.
C14_OneShot ==
    \A p \in Procs :
        /\ lockDriver[p].client = Nil \/ lockDriver[p].clusterClient = Nil
        /\ doOnce[p] => lockDriver[p] # NilDriver

\* C15: a process runs at most one renewal goroutine for a key, whatever
\* the sequence of calls, TryLock, Unlock, TryLock in quick succession
\* included.  (states.listeners is a map and so has one entry for a key.)
C15_OneTaskPerKey ==
    \A p \in Procs, k \in Keys : Cardinality(TasksOf(p, k)) <= 1

\* C16: states.listeners of a process has an entry for a key exactly when a
\* renewal goroutine of that process is running for the key: no entry
\* outlives its goroutine, after a failed refresh or after Unlock.
C16_RegistryTracksTasks ==
    \A p \in Procs, k \in Keys : listeners[p][k] # 0 <=> TasksOf(p, k) # {}

\* C17: as long as no lease has expired, the store has a record for a key
\* exactly when some process believes it holds the key (outside a TryLock
\* that is between its SetNX and its return); a SetNX whose reply is lost
\* does not break the equivalence.  Stated for the runs in which, besides,
\* no process has deleted a record it did not hold.
C17_RecordIffHeld ==
    \A k \in Keys :
        ~hist[k].lost /\ ~MidCall(k) => (Exists(k) <=> Holders(k) # {})

\* C17, as far as it holds: as long as no lease of the key has expired and
\* no process has deleted a record of the key it did not hold, a key that
\* some process believes it holds has a record in the store.
C17_HeldHasRecord ==
    \A k \in Keys : ~hist[k].lost /\ Holders(k) # {} => Exists(k)

C17_Witness ==
    /\ last.op = "TryLock" /\ last.err /\ last.found
    /\ ~hist[last.k].lost /\ Exists(last.k)
    /\ Holders(last.k) # {} /\ last.p \notin Holders(last.k)

\* C18: every store call carries a deadline: the SetNX of TryLock and the
\* Del of Unlock are made under the context of the call, the Expire of a
\* renewal goroutine under the context of the goroutine.
C18_EveryCallBounded ==
    /\ \A ctx \in CallerCtxs : CallCtx(ctx).hasDeadline
    /\ \A t \in tasks : t.ctx.hasDeadline

\* the step in which the renewal goroutine t gets true and no error from
\* its Expire and stays in the loop
Refreshes(t) ==
    /\ t \in tasks /\ t.due
    /\ tasks' = (tasks \ {t}) \cup {[t EXCEPT !.due = FALSE]}

\* C19: a renewal goroutine extends only the lease it was started for: its
\* Expire never succeeds on a record that a later acquisition created, so
\* once its own record is gone it refreshes nothing.  Stated for records
\* whose own goroutine is running, in the runs in which no lease has
\* expired and no process has deleted a record it did not hold.
C19_RefreshesOwnRecord ==
    [][\A t \in tasks :
          /\ Refreshes(t)
          /\ ~hist[t.k].lost
          /\ \E u \in tasks : u.k = t.k /\ u.gen = store[t.k].gen
          => t.gen = store[t.k].gen]_vars

\* the renewal goroutines running in process p
Running(p) == {t \in tasks : t.p = p}

\* C20: renewal goroutines terminate: each exits once Unlock has been called
\* for its key or Asleep has closed the connection, and a process never
\* runs more renewal goroutines than it holds keys.  Stated for the process
\* whose Unlock has just returned true: it runs no more goroutines than it
\* holds keys.
C20_TasksWithinHeld ==
    \A p \in Procs :
        last.op = "Unlock" /\ last.p = p /\ last.ret =>
            Cardinality(Running(p)) <= Cardinality(holds[p])

====
